---------------------------- MODULE Spec2Model ----------------------------
(***************************************************************************)
(* ResiliNet-Harness: the namespace manager (topology.py), the cross-      *)
(* namespace executor and the protocol assertions (validation.py) and the  *)
(* runner (runner.py), as state machines over an abstract host.            *)
(***************************************************************************)
EXTENDS Integers, Sequences, FiniteSets, TLC

VARIABLES
    \* ---- NamespaceManager (topology.py) ----
    created_namespaces,   \* self.created_namespaces: sequence of node names
    created_interfaces,   \* self.created_interfaces: sequence of interface names
    ndb_open,             \* self.ndb is open (TRUE after __init__, FALSE after close)
    \* ---- the host, as the network control capability shows it ----
    hostNs,               \* named network namespaces that exist
    hostLinks,            \* veth pairs that exist, with where each end lives
    loUp,                 \* namespaces whose loopback is up
    \* ---- what the caller of the manager observed ----
    last,                 \* the last manager call and how it ended
    cleanupLog,           \* entries the last cleanup() visited, in order
    snap,                 \* the registry as the last cleanup() found it
    inRow,                \* consecutive cleanup() calls ending with the last call
    pending,              \* interfaces made by failed link_nodes since the last cleanup
    swept,                \* `pending' as the last cleanup() found it
    firstFound,           \* registry entries the first cleanup() of the run of
                          \* consecutive cleanup() calls found
    \* ---- validation.py: spawned processes and their queues ----
    proc,                 \* proc[p]: the process running _target_wrapper
    queue,                \* queue[p]: the multiprocessing.Queue of process p
    rpc,                  \* where run_in_ns is
    rres,                 \* what run_in_ns returned or raised
    \* ---- validation.py: ProtocolAssertion ----
    atest,                \* the assertion under way and its arguments
    apc,                  \* where the assertion's own control flow is
    ares,                 \* how the assertion ended
    captured,             \* packets the sniffer in node B holds
    hist,                 \* sent: the stimulus went out; listened: the sniffer listened
    \* ---- runner.py ----
    run,                  \* where run_test is, what it printed, how it ended
    impairment_profile,   \* the profile run_test was called with
    \* ---- impairment.py ----
    cond                  \* the last NetworkConditioner call and how it ended
    \* (cleanupLog, snap and swept are empty unless the last call was cleanup())

topoVars == <<created_namespaces, created_interfaces, ndb_open, hostNs, hostLinks, loUp>>
obsVars  == <<last, cleanupLog, snap, inRow, pending, swept, firstFound>>
execVars == <<proc, queue, rpc, rres>>
asrtVars == <<atest, apc, ares, captured, hist>>
runVars  == <<run, impairment_profile, cond>>
vars     == <<topoVars, obsVars, execVars, asrtVars, runVars>>

---------------------------------------------------------------------------
\* Names are sequences of characters, so that slicing is what the code does.
Client  == <<"c","l","i","e","n","t">>
Server  == <<"s","e","r","v","e","r">>
DefaultNs == <<>>

Nodes == {Client, Server}

\* Bounds of the model.
MaxReg   == 2
MaxLinks == 1

\* node[-4:]
Suffix4(s) == IF Len(s) <= 4 THEN s ELSE SubSeq(s, Len(s) - 3, Len(s))

\* f"veth-{node[-4:]}"
VethName(node) == <<"v","e","t","h","-">> \o Suffix4(node)

\* ---- the host's interface table ----
HasIf(links, loc, name) ==
    \E l \in links : \/ (l.ifA = name /\ l.locA = loc)
                     \/ (l.ifB = name /\ l.locB = loc)

\* Deleting one end of a veth pair deletes the pair.
DelIf(links, loc, name) ==
    {l \in links : ~(\/ (l.ifA = name /\ l.locA = loc)
                     \/ (l.ifB = name /\ l.locB = loc))}

\* Removing a namespace destroys the veth ends that live in it (and their peers).
DelNs(links, ns) == {l \in links : l.locA # ns /\ l.locB # ns}

IfPresent(links, name) == \E l \in links : l.ifA = name \/ l.ifB = name

---------------------------------------------------------------------------
\* impairment.py.  A profile is the dict handed to apply_profile; an option
\* that is absent (or None) has has = FALSE.
NoStr == [has |-> FALSE, v |-> ""]
NoNum == [has |-> FALSE, v |-> 0]
Str(x) == [has |-> TRUE, v |-> x]
Num(x) == [has |-> TRUE, v |-> x]

\* profile['latency']: absent, a string, or a dict with 'delay' and 'jitter'
NoLatency == [t |-> "none", v |-> "", delay |-> NoStr, jitter |-> NoStr]
LatencyStr(x) == [t |-> "str", v |-> x, delay |-> NoStr, jitter |-> NoStr]
LatencyDict(d, j) == [t |-> "dict", v |-> "", delay |-> d, jitter |-> j]

Profile(lat, jit, loss, reorder) ==
    [latency |-> lat, jitter |-> jit, loss |-> loss, reorder |-> reorder]

\* netem_options = {}
NoOpts == [delay |-> NoStr, jitter |-> NoStr, loss |-> NoNum, reorder |-> NoNum]

\* the root qdisc of an interface: none, or netem with the options installed
NoConf == [set |-> FALSE, opts |-> NoOpts]
Netem(opts) == [set |-> TRUE, opts |-> opts]

\* `if latency:': a non-empty string or a non-empty dict
LatencyTruthy(lat) ==
    \/ lat.t = "str" /\ lat.v # ""
    \/ lat.t = "dict" /\ (lat.delay.has \/ lat.jitter.has)

\* latency.get('delay', '0ms')
GetOr(opt, dflt) == IF opt.has THEN opt ELSE Str(dflt)

\* apply_profile, from the profile to netem_options
Translate(profile) ==
    LET lat == profile.latency
        o1 == IF LatencyTruthy(lat)
              THEN IF lat.t = "dict"
                   THEN [NoOpts EXCEPT !.delay = GetOr(lat.delay, "0ms"),
                                       !.jitter = GetOr(lat.jitter, "0ms")]
                   ELSE [NoOpts EXCEPT !.delay = Str(lat.v)]
              ELSE NoOpts
        o2 == IF profile.loss.has THEN [o1 EXCEPT !.loss = profile.loss] ELSE o1
        o3 == IF profile.reorder.has
              THEN [o2 EXCEPT !.reorder = profile.reorder,
                              !.delay = IF o2.delay.has THEN o2.delay ELSE Str("10ms")]
              ELSE o2
    IN  o3

\* (mutant) the options are never taken to be empty
OptsEmptyNever(o) == FALSE

\* `if not netem_options'
OptsEmpty(o) == ~o.delay.has /\ ~o.jitter.has /\ ~o.loss.has /\ ~o.reorder.has

\* the root qdisc of interface iface of namespace ns
GetQ(links, ns, iface) ==
    IF \E l \in links : l.ifA = iface /\ l.locA = ns
    THEN (CHOOSE l \in links : l.ifA = iface /\ l.locA = ns).qA
    ELSE IF \E l \in links : l.ifB = iface /\ l.locB = ns
    THEN (CHOOSE l \in links : l.ifB = iface /\ l.locB = ns).qB
    ELSE NoConf

SetQ(links, ns, iface, conf) ==
    {IF l.ifA = iface /\ l.locA = ns THEN [l EXCEPT !.qA = conf]
     ELSE IF l.ifB = iface /\ l.locB = ns THEN [l EXCEPT !.qB = conf]
     ELSE l : l \in links}

\* (mutant) the lookup is never taken to be empty
IfaceMissingNever(links, ns, iface) == FALSE

\* idx_list = ip.link_lookup(ifname=interface); `if not idx_list'
IfaceMissing(links, ns, iface) == ~HasIf(links, ns, iface)

\* (mutant) tc add merges the new options into the qdisc that was there
ReplaceMerge(old, opts) ==
    Netem([k \in DOMAIN opts |-> IF opts[k].has THEN opts[k] ELSE old.opts[k]])

\* ip.tc('del', 'root', idx), then ip.tc('add', 'netem', ..., **netem_options):
\* the root qdisc the two calls leave when both succeed
Replace(old, opts) == Netem(opts)

\* where apply_profile can fail, besides what the host state forces:
\*   "open"    self._get_ip_route() (NetNS(namespace) or IPRoute()) raised
\*   "lookup"  ip.link_lookup raised
\*   "add"     ip.tc('add', 'netem', ...) raised
\* delRefused: ip.tc('del', 'root', idx) raised though a qdisc was there
ApplyFailPoints == {"none", "open", "lookup", "add"}

\* apply_profile(interface, profile) of NetworkConditioner(namespace=ns): the
\* host as the call leaves it, whether it raised, and the tc calls it made.
ApplyProfile(host, links, ns, iface, profile, failAt, delRefused) ==
    LET opts    == Translate(profile)
        same    == [ns |-> host, links |-> links, raised |-> FALSE, why |-> "",
                    calls |-> <<>>, looked |-> FALSE]
        \* NetNS(name) makes the namespace when there is none of that name
        opened  == IF ns = DefaultNs THEN host ELSE host \cup {ns}
        found   == ~IfaceMissing(links, ns, iface)
        old     == GetQ(links, ns, iface)
        delDone == old.set /\ ~delRefused
        cleared == IF delDone THEN SetQ(links, ns, iface, NoConf) ELSE links
        addFails == failAt = "add" \/ (old.set /\ ~delDone)
    IN  IF OptsEmpty(opts) THEN same
        ELSE IF failAt = "open"
        THEN [same EXCEPT !.raised = TRUE, !.why = "open"]
        ELSE IF failAt = "lookup"
        THEN [same EXCEPT !.ns = opened, !.raised = TRUE, !.why = "lookup",
                          !.looked = TRUE]
        ELSE IF ~found
        THEN [same EXCEPT !.ns = opened, !.raised = TRUE, !.why = "notfound",
                          !.looked = TRUE]
        ELSE IF addFails
        THEN [same EXCEPT !.ns = opened, !.links = cleared, !.raised = TRUE,
                          !.why = "add", !.calls = <<"del", "add">>, !.looked = TRUE]
        ELSE [same EXCEPT !.ns = opened,
                          !.links = SetQ(links, ns, iface, Replace(old, opts)),
                          !.calls = <<"del", "add">>, !.looked = TRUE]

\* where clear_impairments can meet an exception (all of them are swallowed):
\*   "open"    self._get_ip_route() raised
\*   "lookup"  ip.link_lookup raised
\*   "del"     ip.tc('del', 'root', idx) was refused
\* tc del also raises when the interface has no root qdisc of its own.
ClearFailPoints == {"none", "open", "lookup", "del"}

\* clear_impairments(interface) of NetworkConditioner(namespace=ns)
ClearImpairments(host, links, ns, iface, failAt) ==
    LET same   == [ns |-> host, links |-> links, raised |-> FALSE, why |-> "",
                   calls |-> <<>>, looked |-> FALSE]
        opened == IF ns = DefaultNs THEN host ELSE host \cup {ns}
        old    == GetQ(links, ns, iface)
    IN  IF failAt = "open" THEN [same EXCEPT !.why = "open"]
        ELSE IF failAt = "lookup"
        THEN [same EXCEPT !.ns = opened, !.why = "lookup", !.looked = TRUE]
        ELSE IF IfaceMissing(links, ns, iface)
        THEN [same EXCEPT !.ns = opened, !.looked = TRUE]
        ELSE IF failAt = "del" \/ ~old.set
        THEN [same EXCEPT !.ns = opened, !.why = "del", !.calls = <<"del">>,
                          !.looked = TRUE]
        ELSE [same EXCEPT !.ns = opened, !.links = SetQ(links, ns, iface, NoConf),
                          !.calls = <<"del">>, !.looked = TRUE]

\* what a caller of the conditioner observed of a call
CondCall(op, ns, iface, profile, failAt, host, links, r, prev) ==
    [op |-> op, ns |-> ns, iface |-> iface, profile |-> profile,
     opts |-> IF op = "apply" THEN Translate(profile) ELSE NoOpts,
     failAt |-> failAt, raised |-> r.raised, why |-> r.why, calls |-> r.calls,
     looked |-> r.looked,
     found |-> HasIf(links, ns, iface),
     before |-> GetQ(links, ns, iface),
     hostBefore |-> host, linksBefore |-> links,
     prevOp |-> prev.op, prevIface |-> prev.iface, prevFailAt |-> prev.failAt]

---------------------------------------------------------------------------
\* create_node(name).  outcome: what NetNS(name) did.
\*   "ok"      the namespace was created (or opened)
\*   "eexist"  OSError errno 17
\*   "oserror" any other OSError
CreateOutcomes(name, ns) ==
    IF name \in ns THEN {"ok", "eexist", "oserror"} ELSE {"ok", "oserror"}

CreateNodeRaises(outcome) == outcome = "oserror"

\* (mutant) errno 17 is not tracked
CreateNodeRegistryOnlyNew(reg, name, outcome) ==
    IF outcome = "ok" THEN Append(reg, name) ELSE reg

\* (mutant) the registry is set to the new name instead of appended to
CreateNodeRegistryFresh(reg, name, outcome) ==
    IF outcome \in {"ok", "eexist"} THEN <<name>> ELSE reg

CreateNodeRegistry(reg, name, outcome) ==
    IF outcome \in {"ok", "eexist"} THEN Append(reg, name) ELSE reg

create_node(name, outcome) ==
    /\ Len(created_namespaces) < MaxReg
    /\ outcome \in CreateOutcomes(name, hostNs)
    /\ created_namespaces' = CreateNodeRegistry(created_namespaces, name, outcome)
    /\ hostNs' = IF outcome = "ok" THEN hostNs \cup {name} ELSE hostNs
    /\ last' = [op |-> "create_node", raised |-> CreateNodeRaises(outcome),
                outcome |-> outcome, name |-> name, failedAt |-> 0, made |-> {}, peer |-> DefaultNs]
    /\ inRow' = 0
    /\ firstFound' = 0
    /\ cleanupLog' = <<>>
    /\ snap' = [ifs |-> <<>>, nss |-> <<>>]
    /\ swept' = {}
    /\ UNCHANGED <<created_interfaces, ndb_open, hostLinks, loUp, pending>>

---------------------------------------------------------------------------
\* link_nodes(node_a, node_b, ip_a, ip_b, subnet_mask).  The steps that can fail:
\*    1  ip.link('add', ifname=if_a, kind='veth', peer=if_b)
\*    2  ip.link_lookup(if_a)[0], ip.link_lookup(if_b)[0]
\*    3  ip.link('set', index=idx_a, net_ns_fd=node_a)
\*    4  ip.link('set', index=idx_b, net_ns_fd=node_b)
\*    5  NetNS(node_a), ns.link_lookup(if_a)[0]
\*    6  ns.link('set', index=idx, state='up')
\*    7  ns.addr('add', index=idx, address=ip_a, mask=subnet_mask)
\*    8  ns.link_lookup('lo')[0], ns.link('set', index=lo_idx, state='up')
\*    9..12  the same four steps in node_b
\* failAt = 0: no step failed; failAt = k: step k raised, the steps before it ran.
LastLinkStep == 12

StepDone(failAt, k) == failAt = 0 \/ failAt > k

\* The first step the host state forces to fail (0: none).
\*   1: the two ends have one name, or a name is taken in the default namespace
\*   3, 4: the target namespace does not exist, or holds an interface of that name
ForcedFail(node_a, node_b, ns, links) ==
    LET if_a == VethName(node_a)
        if_b == VethName(node_b)
    IN  IF if_a = if_b \/ HasIf(links, DefaultNs, if_a) \/ HasIf(links, DefaultNs, if_b)
        THEN 1
        ELSE IF node_a \notin ns \/ HasIf(links, node_a, if_a) THEN 3
        ELSE IF node_b \notin ns \/ HasIf(links, node_b, if_b) THEN 4
        ELSE 0

LinkFailPoints(node_a, node_b, ns, links) ==
    LET f == ForcedFail(node_a, node_b, ns, links)
    IN  IF f = 0 THEN 0 .. LastLinkStep ELSE 1 .. f

\* The veth pair as the call leaves it.
LinkMade(node_a, node_b, ip_a, ip_b, failAt) ==
    [ifA   |-> VethName(node_a),
     locA  |-> IF StepDone(failAt, 3) THEN node_a ELSE DefaultNs,
     upA   |-> StepDone(failAt, 6),
     addrA |-> IF StepDone(failAt, 7) THEN ip_a ELSE "",
     qA    |-> NoConf,
     ifB   |-> VethName(node_b),
     locB  |-> IF StepDone(failAt, 4) THEN node_b ELSE DefaultNs,
     upB   |-> StepDone(failAt, 10),
     addrB |-> IF StepDone(failAt, 11) THEN ip_b ELSE "",
     qB    |-> NoConf]

\* self.created_interfaces.append(if_a_name), right after the pair is made
LinkRegistry(reg, node_a, node_b, failAt) ==
    IF StepDone(failAt, 1) THEN Append(reg, VethName(node_a)) ELSE reg

\* the interfaces the call brought into existence
LinkCreated(node_a, node_b, failAt) ==
    IF StepDone(failAt, 1) THEN {VethName(node_a), VethName(node_b)} ELSE {}

link_nodes(node_a, node_b, ip_a, ip_b, failAt) ==
    /\ Len(created_interfaces) < MaxReg
    /\ Cardinality(hostLinks) < MaxLinks
    /\ failAt \in LinkFailPoints(node_a, node_b, hostNs, hostLinks)
    /\ created_interfaces' = LinkRegistry(created_interfaces, node_a, node_b, failAt)
    /\ hostLinks' = IF StepDone(failAt, 1)
                    THEN hostLinks \cup {LinkMade(node_a, node_b, ip_a, ip_b, failAt)}
                    ELSE hostLinks
    /\ loUp' = loUp \cup (IF StepDone(failAt, 8) THEN {node_a} ELSE {})
                    \cup (IF StepDone(failAt, 12) THEN {node_b} ELSE {})
    /\ last' = [op |-> "link_nodes", raised |-> failAt # 0, outcome |-> "",
                name |-> node_a, failedAt |-> failAt,
                made |-> LinkCreated(node_a, node_b, failAt), peer |-> node_b]
    /\ inRow' = 0
    /\ firstFound' = 0
    /\ pending' = IF failAt # 0 THEN pending \cup LinkCreated(node_a, node_b, failAt)
                  ELSE pending
    /\ cleanupLog' = <<>>
    /\ snap' = [ifs |-> <<>>, nss |-> <<>>]
    /\ swept' = {}
    /\ UNCHANGED <<created_namespaces, ndb_open, hostNs>>

---------------------------------------------------------------------------
\* cleanup().  A sweep state is the host as the sweep has left it so far, the
\* entries visited, and whether an exception left the loop.
SweepStart(ns, links, lo) ==
    [ns |-> ns, links |-> links, lo |-> lo, log |-> <<>>, raised |-> FALSE]

\* One pass of the interface loop:
\*   try: if ip.link_lookup(ifname=ifname): ip.link('del', ifname=ifname)
\*   except Exception: pass
\* refused: the lookup or the delete raised.
\* (mutant) no try/except around the delete: a refusal leaves the loop
IfaceAttemptUnguarded(st, name, refused) ==
    LET found == HasIf(st.links, DefaultNs, name)
        res   == IF refused THEN "refused" ELSE IF found THEN "removed" ELSE "absent"
    IN  [st EXCEPT !.links = IF res = "removed" THEN DelIf(st.links, DefaultNs, name)
                             ELSE st.links,
                   !.log   = Append(st.log, [kind |-> "if", name |-> name, res |-> res]),
                   !.raised = refused]

IfaceAttempt(st, name, refused) ==
    LET found == HasIf(st.links, DefaultNs, name)
        res   == IF refused THEN "refused" ELSE IF found THEN "removed" ELSE "absent"
    IN  [st EXCEPT !.links = IF res = "removed" THEN DelIf(st.links, DefaultNs, name)
                             ELSE st.links,
                   !.log   = Append(st.log, [kind |-> "if", name |-> name, res |-> res]),
                   !.raised = FALSE]

\* One pass of the namespace loop:
\*   try: netns.remove(ns_name)
\*   except Exception as e: logger.warning(...)
\* netns.remove raises on a name that does not exist, or when it is refused.
NsAttempt(st, name, refused) ==
    LET res == IF name \notin st.ns THEN "missing"
               ELSE IF refused THEN "refused" ELSE "removed"
    IN  [st EXCEPT !.ns    = IF res = "removed" THEN st.ns \ {name} ELSE st.ns,
                   !.links = IF res = "removed" THEN DelNs(st.links, name) ELSE st.links,
                   !.lo    = IF res = "removed" THEN st.lo \ {name} ELSE st.lo,
                   !.log   = Append(st.log, [kind |-> "ns", name |-> name, res |-> res]),
                   !.raised = FALSE]

RECURSIVE SweepIfs(_, _, _, _)
\* for ifname in self.created_interfaces: ...
SweepIfs(ifs, i, st, refuse) ==
    IF i > Len(ifs) \/ st.raised THEN st
    ELSE SweepIfs(ifs, i + 1, IfaceAttempt(st, ifs[i], i \in refuse), refuse)

RECURSIVE SweepNss(_, _, _, _)
\* for ns_name in self.created_namespaces: ...
SweepNss(nss, i, st, refuse) ==
    IF i > Len(nss) \/ st.raised THEN st
    ELSE SweepNss(nss, i + 1, NsAttempt(st, nss[i], i \in refuse), refuse)

\* the two loops, in the order of the code
CleanupSweep(ifs, nss, st, refIf, refNs) ==
    SweepNss(nss, 1, SweepIfs(ifs, 1, st, refIf), refNs)

\* self.created_namespaces = []; self.created_interfaces = []
\* (mutant) the lists are not reset
CleanupKeep(reg) == reg

CleanupReset(reg) == <<>>

\* self.ndb.close(): closing a closed NDB returns at once
NdbClose(open) == FALSE

cleanup(refIf, refNs) ==
    LET st == CleanupSweep(created_interfaces, created_namespaces,
                           SweepStart(hostNs, hostLinks, loUp), refIf, refNs)
    IN  /\ refIf \subseteq 1 .. Len(created_interfaces)
        /\ refNs \subseteq 1 .. Len(created_namespaces)
        /\ hostNs' = st.ns
        /\ hostLinks' = st.links
        /\ loUp' = st.lo
        /\ cleanupLog' = st.log
        \* an exception leaving a loop skips the rest of the function
        /\ created_namespaces' = IF st.raised THEN created_namespaces
                                 ELSE CleanupReset(created_namespaces)
        /\ created_interfaces' = IF st.raised THEN created_interfaces
                                 ELSE CleanupReset(created_interfaces)
        /\ ndb_open' = IF st.raised THEN ndb_open ELSE NdbClose(ndb_open)
        /\ last' = [op |-> "cleanup", raised |-> st.raised, outcome |-> "",
                    name |-> DefaultNs, failedAt |-> 0, made |-> {}, peer |-> DefaultNs]
        /\ snap' = [ifs |-> created_interfaces, nss |-> created_namespaces]
        /\ inRow' = IF inRow < 2 THEN inRow + 1 ELSE inRow
        /\ firstFound' = IF inRow = 0
                         THEN Len(created_interfaces) + Len(created_namespaces)
                         ELSE firstFound
        /\ swept' = pending
        /\ pending' = {}

---------------------------------------------------------------------------
\* validation.py.  Two processes run _target_wrapper: "A", spawned by
\* run_in_ns, and "B", the capture process the assertions spawn themselves.
Procs == {"A", "B"}

\* A multiprocessing.Queue result travels in chunks through a pipe of bounded
\* capacity: put() leaves it in the putting process's buffer, the feeder
\* thread moves it into the pipe as room allows, and a process that has put
\* something does not exit before its buffer is flushed.
PipeCap == 2
MaxMsg  == 3

NoMsg == [ok |-> FALSE, val |-> 0, why |-> "", size |-> 0]
NoJob == [kind |-> "none", size |-> 0, raises |-> FALSE, count |-> 0]
NoProc == [pc |-> "none", ns |-> DefaultNs, job |-> NoJob,
           entered |-> FALSE, ran |-> FALSE, cur |-> DefaultNs, jobs |-> 0]
\* the process that calls run_in_ns and the assertions; cur is the network
\* namespace a process is in
Main == "main"
Coordinator == [pc |-> "main", ns |-> DefaultNs, job |-> NoJob,
                entered |-> FALSE, ran |-> FALSE, cur |-> DefaultNs, jobs |-> 0]
IdleProcs == [p \in Procs \cup {Main} |-> IF p = Main THEN Coordinator ELSE NoProc]
EmptyQueue == [buf |-> 0, pipe |-> 0, got |-> 0, msg |-> NoMsg, puts |-> 0]

\* multiprocessing.Process(target=_target_wrapper, args=(ns, queue, target, ...)).start()
Spawned(ns, job) ==
    [pc |-> "spawned", ns |-> ns, job |-> job, entered |-> FALSE, ran |-> FALSE,
     cur |-> proc[Main].cur, jobs |-> 0]

\* queue.put(msg) in the child
QPut(q, msg) == [q EXCEPT !.msg = msg, !.buf = msg.size, !.puts = @ + 1]

\* queue.empty() in the parent: nothing readable in the pipe
QEmpty(q) == q.pipe = 0

\* (mutant) the wrapper does not look for the namespace file
NsFoundAny(ns, host) == TRUE

\* os.path.exists(f"/var/run/netns/{ns_name}")
NsFound(ns, host) == ns \in host

\* (mutant) setns is called in the process that started the child
EnterInCaller(pr, p) ==
    [pr EXCEPT ![p].pc = "inns", ![p].entered = TRUE, ![Main].cur = pr[p].ns]

\* with open(ns_path) as f: netns.setns(f.fileno()), in process p
EnterIn(pr, p) ==
    [pr EXCEPT ![p].pc = "inns", ![p].entered = TRUE, ![p].cur = pr[p].ns]

Alive(p) == proc[p].pc \in {"spawned", "inns", "sniffing", "flushing"}
Gone(p)  == proc[p].pc \in {"exited", "died", "terminated"}

\* _target_wrapper, up to the job: the namespace file is missing (the failure
\* is put on the queue and the wrapper returns) or the process enters it.
WrapperEnter(p) ==
    /\ proc[p].pc = "spawned"
    /\ IF ~NsFound(proc[p].ns, hostNs)
       THEN /\ proc' = [proc EXCEPT ![p].pc = "flushing"]
            /\ queue' = [queue EXCEPT ![p] =
                           QPut(@, [ok |-> FALSE, val |-> 0, why |-> "notfound", size |-> 1])]
       ELSE /\ proc' = EnterIn(proc, p)
            /\ UNCHANGED queue
    /\ UNCHANGED <<rpc, rres, asrtVars>>

\* result = target(*args, **kwargs); queue.put((True, result))
\* except Exception as e: queue.put((False, str(e)))
\* for a job that computes and returns (or raises)
WrapperRunPlain(p) ==
    /\ proc[p].pc = "inns"
    /\ proc[p].job.kind = "plain"
    /\ proc' = [proc EXCEPT ![p].pc = "flushing", ![p].ran = TRUE, ![p].jobs = @ + 1]
    /\ queue' = [queue EXCEPT ![p] =
          QPut(@, IF proc[p].job.raises
                  THEN [ok |-> FALSE, val |-> 0, why |-> "job", size |-> 1]
                  ELSE [ok |-> TRUE, val |-> proc[p].job.size, why |-> "",
                        size |-> proc[p].job.size])]
    /\ UNCHANGED <<rpc, rres, asrtVars>>

\* the queue's feeder thread writes one chunk into the pipe
WrapperFlush(p) ==
    /\ proc[p].pc = "flushing"
    /\ queue[p].buf > 0
    /\ queue[p].pipe < PipeCap
    /\ queue' = [queue EXCEPT ![p].buf = @ - 1, ![p].pipe = @ + 1]
    /\ UNCHANGED proc
    /\ UNCHANGED <<rpc, rres, asrtVars>>

\* the process ends once everything it put is in the pipe
WrapperExit(p) ==
    /\ proc[p].pc = "flushing"
    /\ queue[p].buf = 0
    /\ proc' = [proc EXCEPT ![p].pc = "exited"]
    /\ UNCHANGED queue
    /\ UNCHANGED <<rpc, rres, asrtVars>>

\* the process dies before it put anything (killed, or left by something
\* that is not an Exception)
WrapperDie(p) ==
    /\ proc[p].pc \in {"spawned", "inns", "sniffing"}
    /\ proc' = [proc EXCEPT ![p].pc = "died"]
    /\ UNCHANGED queue
    /\ UNCHANGED <<rpc, rres, asrtVars>>

\* ---- run_in_ns(ns_name, target, *args, **kwargs) ----
\* a call of run_in_ns(ns, job) about to start
RunCall(ns, job) == [ns |-> ns, job |-> job, ok |-> FALSE, val |-> 0, why |-> ""]

\* queue = multiprocessing.Queue(); p = Process(...); p.start()
RunStart ==
    /\ rpc = "start"
    /\ proc' = [proc EXCEPT !["A"] = Spawned(rres.ns, rres.job)]
    /\ queue' = [queue EXCEPT !["A"] = EmptyQueue]
    /\ rpc' = "join"
    /\ UNCHANGED rres
    /\ UNCHANGED asrtVars

\* p.join()
RunJoin ==
    /\ rpc = "join"
    /\ Gone("A")
    /\ rpc' = "check"
    /\ UNCHANGED <<proc, queue, rres>>
    /\ UNCHANGED asrtVars

\* if queue.empty(): raise Exception("Process died without returning result")
RunCheck ==
    /\ rpc = "check"
    /\ IF QEmpty(queue["A"])
       THEN /\ rpc' = "raised"
            /\ rres' = [rres EXCEPT !.why = "died"]
       ELSE /\ rpc' = "get"
            /\ UNCHANGED rres
    /\ UNCHANGED <<proc, queue>>
    /\ UNCHANGED asrtVars

\* success, result = queue.get(): reads the message out of the pipe, chunk by
\* chunk;  if not success: raise Exception(...);  return result
RunGet ==
    /\ rpc = "get"
    /\ queue["A"].pipe > 0
    /\ queue' = [queue EXCEPT !["A"].pipe = @ - 1, !["A"].got = @ + 1]
    /\ IF queue["A"].got + 1 = queue["A"].msg.size
       THEN /\ rpc' = IF queue["A"].msg.ok THEN "returned" ELSE "raised"
            /\ rres' = [rres EXCEPT !.ok = queue["A"].msg.ok,
                                    !.val = queue["A"].msg.val,
                                    !.why = queue["A"].msg.why]
       ELSE UNCHANGED <<rpc, rres>>
    /\ UNCHANGED proc
    /\ UNCHANGED asrtVars

\* ---- the jobs of the assertions ----
\* _send_syn / _send_large_icmp: count packets go out (the fragments of the
\* datagram); the returned packet is a small message.
SendJob(count) == [kind |-> "send", size |-> 1, raises |-> FALSE, count |-> count]

\* start_sniffer_b: sniff(iface=interface, count=count, filter=..., timeout=5)
SniffJob(count) == [kind |-> "sniff", size |-> 1, raises |-> FALSE, count |-> count]

Min(a, b) == IF a < b THEN a ELSE b

\* how many of n packets sent can reach node B's interface
Arrivals(n, loss, linked) ==
    IF ~linked \/ loss = 100 THEN {0}
    ELSE IF loss = 0 THEN {n}
    ELSE 0 .. n

\* the path from node A's interface to node B's interface exists
Linked(links, node_a, node_b, iface) ==
    \E l \in links : \/ (l.locA = node_a /\ l.locB = node_b /\ l.ifB = iface)
                     \/ (l.locB = node_a /\ l.locA = node_b /\ l.ifA = iface)

\* netem loss percentage on node A's end of that path
QLoss(conf) == IF conf.set /\ conf.opts.loss.has THEN conf.opts.loss.v ELSE 0

PathLoss(links, node_a, node_b, iface) ==
    IF \E l \in links : l.locA = node_a /\ l.locB = node_b /\ l.ifB = iface
    THEN QLoss((CHOOSE l \in links :
                  l.locA = node_a /\ l.locB = node_b /\ l.ifB = iface).qA)
    ELSE IF \E l \in links : l.locB = node_a /\ l.locA = node_b /\ l.ifA = iface
    THEN QLoss((CHOOSE l \in links :
                  l.locB = node_a /\ l.locA = node_b /\ l.ifA = iface).qB)
    ELSE 0

\* the stimulus job in node A: send(pkt) raises, or the packets go out and
\* those that arrive while the sniffer is listening are captured
WrapperRunSend(p, fails, arrive) ==
    /\ proc[p].pc = "inns"
    /\ proc[p].job.kind = "send"
    /\ arrive \in Arrivals(proc[p].job.count,
                           PathLoss(hostLinks, atest.node_a, atest.node_b, atest.iface),
                           Linked(hostLinks, atest.node_a, atest.node_b, atest.iface))
    /\ proc' = [proc EXCEPT ![p].pc = "flushing", ![p].ran = TRUE, ![p].jobs = @ + 1]
    /\ queue' = [queue EXCEPT ![p] =
          QPut(@, IF fails
                  THEN [ok |-> FALSE, val |-> 0, why |-> "job", size |-> 1]
                  ELSE [ok |-> TRUE, val |-> 1, why |-> "", size |-> 1])]
    /\ hist' = IF fails THEN hist ELSE [hist EXCEPT !.sent = TRUE]
    /\ captured' = IF ~fails /\ proc["B"].pc = "sniffing"
                   THEN Min(proc["B"].job.count, captured + arrive)
                   ELSE captured
    /\ UNCHANGED <<rpc, rres, atest, apc, ares>>

\* the capture job in node B begins: sniff() opens the interface and listens,
\* or raises when the interface is not in the namespace
WrapperSniffStart(p) ==
    /\ proc[p].pc = "inns"
    /\ proc[p].job.kind = "sniff"
    /\ IF HasIf(hostLinks, proc[p].ns, atest.iface)
       THEN /\ proc' = [proc EXCEPT ![p].pc = "sniffing", ![p].ran = TRUE, ![p].jobs = @ + 1]
            /\ hist' = [hist EXCEPT !.listened = TRUE]
            /\ UNCHANGED queue
       ELSE /\ proc' = [proc EXCEPT ![p].pc = "flushing", ![p].ran = TRUE, ![p].jobs = @ + 1]
            /\ queue' = [queue EXCEPT ![p] =
                  QPut(@, [ok |-> FALSE, val |-> 0, why |-> "job", size |-> 1])]
            /\ UNCHANGED hist
    /\ UNCHANGED <<rpc, rres, atest, apc, ares, captured>>

\* (mutant) sniff() without a timeout: it returns only with count packets
WrapperSniffEndNoTimeout(p) ==
    /\ proc[p].pc = "sniffing"
    /\ captured >= proc[p].job.count
    /\ proc' = [proc EXCEPT ![p].pc = "flushing"]
    /\ queue' = [queue EXCEPT ![p] =
          QPut(@, [ok |-> TRUE, val |-> captured, why |-> "", size |-> 1])]
    /\ UNCHANGED <<rpc, rres, asrtVars>>

\* sniff() returns: count packets are in, or the timeout ran out
WrapperSniffEnd(p) ==
    /\ proc[p].pc = "sniffing"
    /\ proc' = [proc EXCEPT ![p].pc = "flushing"]
    /\ queue' = [queue EXCEPT ![p] =
          QPut(@, [ok |-> TRUE, val |-> captured, why |-> "", size |-> 1])]
    /\ UNCHANGED <<rpc, rres, asrtVars>>

\* ---- ProtocolAssertion.test_tcp_handshake / test_mtu_fragmentation ----
\* packets the sniffer is asked for
SniffCount(test) == IF test = "tcp" THEN 1 ELSE 2

\* `if not packets' / `if len(packets) < 2'
MinPackets(test) == IF test = "tcp" THEN 1 ELSE 2

\* try: run_in_ns(...) except Exception as e: p_b.terminate(); raise e
\* is in test_tcp_handshake only
AbortsCapture(test) == test = "tcp"

NoResult == [outcome |-> "none", why |-> ""]

\* queue_b = Queue(); p_b = Process(target=_target_wrapper, ...); p_b.start()
AssertStart ==
    /\ apc = "start"
    /\ proc' = [proc EXCEPT !["B"] = Spawned(atest.node_b, SniffJob(SniffCount(atest.test)))]
    /\ queue' = [queue EXCEPT !["B"] = EmptyQueue]
    /\ apc' = "sleep"
    /\ UNCHANGED <<rpc, rres, atest, ares, captured, hist>>

\* time.sleep(1) is over; run_in_ns(node_a, _send_syn / _send_large_icmp, ...)
AssertSleep ==
    /\ apc = "sleep"
    /\ apc' = "stim"
    /\ rpc' = "start"
    /\ rres' = RunCall(atest.node_a, SendJob(atest.frags))
    /\ UNCHANGED <<proc, queue, atest, ares, captured, hist>>

\* run_in_ns is back
AssertStimEnd ==
    /\ apc = "stim"
    /\ rpc \in {"returned", "raised"}
    /\ IF rpc = "raised"
       THEN /\ apc' = "done"
            /\ ares' = [outcome |-> "exception", why |-> "stimulus"]
            /\ proc' = IF AbortsCapture(atest.test) /\ Alive("B")
                       THEN [proc EXCEPT !["B"].pc = "terminated"]
                       ELSE proc
       ELSE /\ apc' = "join"
            /\ UNCHANGED <<ares, proc>>
    /\ UNCHANGED <<queue, rpc, rres, atest, captured, hist>>

\* p_b.join()
AssertJoin ==
    /\ apc = "join"
    /\ Gone("B")
    /\ apc' = "check"
    /\ UNCHANGED <<proc, queue, rpc, rres, atest, ares, captured, hist>>

\* if queue_b.empty(): raise AssertionError(...)
AssertCheck ==
    /\ apc = "check"
    /\ IF QEmpty(queue["B"])
       THEN /\ apc' = "done"
            /\ ares' = [outcome |-> "assertion_error", why |-> "no_result"]
       ELSE /\ apc' = "get"
            /\ UNCHANGED ares
    /\ UNCHANGED <<proc, queue, rpc, rres, atest, captured, hist>>

\* the verdict on the message (success, packets) of the capture process
Verdict(test, msg) ==
    IF ~msg.ok THEN [outcome |-> "assertion_error", why |-> "sniffer_error"]
    ELSE IF msg.val < MinPackets(test)
         THEN [outcome |-> "assertion_error", why |-> "too_few"]
         ELSE [outcome |-> "pass", why |-> ""]

\* success, packets = queue_b.get(), and the checks on it
AssertGet ==
    /\ apc = "get"
    /\ queue["B"].pipe > 0
    /\ queue' = [queue EXCEPT !["B"].pipe = @ - 1, !["B"].got = @ + 1]
    /\ IF queue["B"].got + 1 = queue["B"].msg.size
       THEN /\ apc' = "done"
            /\ ares' = Verdict(atest.test, queue["B"].msg)
       ELSE UNCHANGED <<apc, ares>>
    /\ UNCHANGED <<proc, rpc, rres, atest, captured, hist>>

NoTest == [test |-> "none", node_a |-> DefaultNs, node_b |-> DefaultNs,
           iface |-> DefaultNs, frags |-> 0]

---------------------------------------------------------------------------
TopoInit ==
    /\ created_namespaces = <<>>
    /\ created_interfaces = <<>>
    /\ ndb_open = TRUE
    /\ hostNs \in SUBSET Nodes
    /\ hostLinks = {}
    /\ loUp = {}
    /\ last = [op |-> "none", raised |-> FALSE, outcome |-> "", name |-> DefaultNs,
               failedAt |-> 0, made |-> {}, peer |-> DefaultNs]
    /\ cleanupLog = <<>>
    /\ snap = [ifs |-> <<>>, nss |-> <<>>]
    /\ inRow = 0
    /\ pending = {}
    /\ swept = {}
    /\ firstFound = 0

ExecIdle ==
    /\ proc = IdleProcs
    /\ queue = [p \in Procs |-> EmptyQueue]
    /\ rpc = "idle"
    /\ rres = RunCall(DefaultNs, NoJob)

AssertIdle ==
    /\ atest = NoTest
    /\ apc = "idle"
    /\ ares = NoResult
    /\ captured = 0
    /\ hist = [sent |-> FALSE, listened |-> FALSE]

NoProfile == Profile(NoLatency, NoStr, NoNum, NoNum)

\* no call of the conditioner yet
NoCall ==
    [op |-> "none", ns |-> DefaultNs, iface |-> DefaultNs, profile |-> NoProfile,
     opts |-> NoOpts, failAt |-> "none", raised |-> FALSE, why |-> "",
     calls |-> <<>>, looked |-> FALSE, found |-> FALSE, before |-> NoConf,
     hostBefore |-> {}, linksBefore |-> {}, prevOp |-> "none",
     prevIface |-> DefaultNs, prevFailAt |-> "none"]

RunnerIdle ==
    /\ run = [pc |-> "idle", err |-> FALSE, failed |-> "", printed |-> "",
              cleaned |-> 0, raised |-> FALSE]
    /\ impairment_profile = NoProfile
    /\ cond = NoCall

\* ---- the manager, called in any order by its user ----
Init == TopoInit /\ ExecIdle /\ AssertIdle /\ RunnerIdle

CallCreateNode ==
    /\ \E n \in Nodes, o \in {"ok", "eexist", "oserror"} : create_node(n, o)
    /\ UNCHANGED <<execVars, asrtVars, runVars>>

CallLinkNodes ==
    /\ \E a \in Nodes, b \in Nodes, f \in 0 .. LastLinkStep :
          link_nodes(a, b, "10.0.0.1", "10.0.0.2", f)
    /\ UNCHANGED <<execVars, asrtVars, runVars>>

CallCleanup ==
    /\ \E ri \in SUBSET (1 .. MaxReg), rn \in SUBSET (1 .. MaxReg) : cleanup(ri, rn)
    /\ UNCHANGED <<execVars, asrtVars, runVars>>

Next == CallCreateNode \/ CallLinkNodes \/ CallCleanup

Spec == Init /\ [][Next]_vars

\* ---- run_in_ns alone: any namespace name, any job ----
Jobs ==
    {[kind |-> "plain", size |-> n, raises |-> FALSE, count |-> 0] : n \in 1 .. MaxMsg}
      \cup {[kind |-> "plain", size |-> 1, raises |-> TRUE, count |-> 0]}

RunInit ==
    /\ TopoInit
    /\ proc = IdleProcs
    /\ queue = [p \in Procs |-> EmptyQueue]
    /\ rpc = "start"
    /\ \E n \in Nodes, j \in Jobs : rres = RunCall(n, j)
    /\ AssertIdle
    /\ RunnerIdle

RunNext ==
    \/ RunStart /\ UNCHANGED <<topoVars, obsVars, runVars>>
    \/ RunJoin /\ UNCHANGED <<topoVars, obsVars, runVars>>
    \/ RunCheck /\ UNCHANGED <<topoVars, obsVars, runVars>>
    \/ RunGet /\ UNCHANGED <<topoVars, obsVars, runVars>>
    \/ WrapperEnter("A") /\ UNCHANGED <<topoVars, obsVars, runVars>>
    \/ WrapperRunPlain("A") /\ UNCHANGED <<topoVars, obsVars, runVars>>
    \/ WrapperFlush("A") /\ UNCHANGED <<topoVars, obsVars, runVars>>
    \/ WrapperExit("A") /\ UNCHANGED <<topoVars, obsVars, runVars>>
    \/ WrapperDie("A") /\ UNCHANGED <<topoVars, obsVars, runVars>>

SpecRun == RunInit /\ [][RunNext]_vars

\* ---- one assertion on a host that is set up, or not ----
\* the link of link_nodes(Client, Server, ...), all steps done
FullLink == LinkMade(Client, Server, "10.0.0.1", "10.0.0.2", 0)

\* what node A's interface may carry when the assertion starts
ValConfs == {NoConf,
             Netem(Translate(Profile(NoLatency, NoStr, Num(5), NoNum))),
             Netem(Translate(Profile(NoLatency, NoStr, Num(100), NoNum)))}

ValInit ==
    /\ created_namespaces = <<>>
    /\ created_interfaces = <<>>
    /\ ndb_open = TRUE
    /\ hostNs \in SUBSET Nodes
    /\ hostLinks \in (IF hostNs = Nodes
                      THEN {{}} \cup {{[FullLink EXCEPT !.qA = q]} : q \in ValConfs}
                      ELSE {{}})
    /\ loUp = (IF hostLinks = {} THEN {} ELSE Nodes)
    /\ last = [op |-> "none", raised |-> FALSE, outcome |-> "", name |-> DefaultNs,
               failedAt |-> 0, made |-> {}, peer |-> DefaultNs]
    /\ cleanupLog = <<>>
    /\ snap = [ifs |-> <<>>, nss |-> <<>>]
    /\ inRow = 0
    /\ pending = {}
    /\ swept = {}
    /\ firstFound = 0
    /\ ExecIdle
    /\ \E t \in {"tcp", "mtu"}, f \in 1 .. 2 :
          /\ t = "tcp" => f = 1
          /\ atest = [test |-> t, node_a |-> Client, node_b |-> Server,
                      iface |-> VethName(Server), frags |-> f]
    /\ apc = "start"
    /\ ares = NoResult
    /\ captured = 0
    /\ hist = [sent |-> FALSE, listened |-> FALSE]
    /\ RunnerIdle

ValNext ==
    \/ AssertStart /\ UNCHANGED <<topoVars, obsVars, runVars>>
    \/ AssertSleep /\ UNCHANGED <<topoVars, obsVars, runVars>>
    \/ AssertStimEnd /\ UNCHANGED <<topoVars, obsVars, runVars>>
    \/ AssertJoin /\ UNCHANGED <<topoVars, obsVars, runVars>>
    \/ AssertCheck /\ UNCHANGED <<topoVars, obsVars, runVars>>
    \/ AssertGet /\ UNCHANGED <<topoVars, obsVars, runVars>>
    \/ RunStart /\ UNCHANGED <<topoVars, obsVars, runVars>>
    \/ RunJoin /\ UNCHANGED <<topoVars, obsVars, runVars>>
    \/ RunCheck /\ UNCHANGED <<topoVars, obsVars, runVars>>
    \/ RunGet /\ UNCHANGED <<topoVars, obsVars, runVars>>
    \/ \E p \in Procs : WrapperEnter(p) /\ UNCHANGED <<topoVars, obsVars, runVars>>
    \/ \E f \in BOOLEAN, n \in 0 .. 2 :
          WrapperRunSend("A", f, n) /\ UNCHANGED <<topoVars, obsVars, runVars>>
    \/ WrapperSniffStart("B") /\ UNCHANGED <<topoVars, obsVars, runVars>>
    \/ WrapperSniffEnd("B") /\ UNCHANGED <<topoVars, obsVars, runVars>>
    \/ \E p \in Procs : WrapperFlush(p) /\ UNCHANGED <<topoVars, obsVars, runVars>>
    \/ \E p \in Procs : WrapperExit(p) /\ UNCHANGED <<topoVars, obsVars, runVars>>
    \/ \E p \in Procs : WrapperDie(p) /\ UNCHANGED <<topoVars, obsVars, runVars>>

SpecVal == ValInit /\ [][ValNext]_vars

---------------------------------------------------------------------------
\* runner.py: run_test(impairment_profile), with setup_topology() around it.
\* `if impairment_profile:': the dict has a key
ProfileTruthy(pr) ==
    pr.latency.t # "none" \/ pr.jitter.has \/ pr.loss.has \/ pr.reorder.has

\* (mutant) no try/finally in setup_topology: an exception leaves run_test at once
RunnerRaiseNoFinally(r, step) ==
    [r EXCEPT !.pc = "done", !.err = TRUE, !.failed = step, !.raised = TRUE]

\* an exception in setup_topology's try block, or thrown into it at the
\* yield by the with statement of run_test: control goes to the finally clause
RunnerRaise(r, step) == [r EXCEPT !.pc = "finally", !.err = TRUE, !.failed = step]

\* nm.create_node("client")
RunnerCreateClient ==
    /\ run.pc = "create_client"
    /\ \E o \in {"ok", "eexist", "oserror"} :
          /\ create_node(Client, o)
          /\ run' = IF CreateNodeRaises(o) THEN RunnerRaise(run, "create_client")
                    ELSE [run EXCEPT !.pc = "create_server"]
    /\ UNCHANGED <<execVars, asrtVars, impairment_profile, cond>>

\* nm.create_node("server")
RunnerCreateServer ==
    /\ run.pc = "create_server"
    /\ \E o \in {"ok", "eexist", "oserror"} :
          /\ create_node(Server, o)
          /\ run' = IF CreateNodeRaises(o) THEN RunnerRaise(run, "create_server")
                    ELSE [run EXCEPT !.pc = "link"]
    /\ UNCHANGED <<execVars, asrtVars, impairment_profile, cond>>

\* nm.link_nodes("client", "server", "10.0.0.1", "10.0.0.2", 24); yield nm
RunnerLink ==
    /\ run.pc = "link"
    /\ \E f \in 0 .. LastLinkStep :
          /\ link_nodes(Client, Server, "10.0.0.1", "10.0.0.2", f)
          /\ run' = IF f # 0 THEN RunnerRaise(run, "link")
                    ELSE [run EXCEPT !.pc = "apply"]
    /\ UNCHANGED <<execVars, asrtVars, impairment_profile, cond>>

\* if impairment_profile:
\*     nc = NetworkConditioner(namespace="client")
\*     nc.apply_profile(client_iface, impairment_profile)     ("veth-ient")
RunnerApply ==
    /\ run.pc = "apply"
    /\ \E f \in ApplyFailPoints, d \in BOOLEAN :
          LET client_iface == <<"v","e","t","h","-","i","e","n","t">>
              called == ProfileTruthy(impairment_profile)
              r == IF called
                   THEN ApplyProfile(hostNs, hostLinks, Client, client_iface,
                                     impairment_profile, f, d)
                   ELSE [ns |-> hostNs, links |-> hostLinks, raised |-> FALSE]
          IN  /\ hostNs' = r.ns
              /\ hostLinks' = r.links
              /\ cond' = IF called
                         THEN CondCall("apply", Client, client_iface,
                                       impairment_profile, f, hostNs, hostLinks,
                                       r, cond)
                         ELSE cond
              /\ run' = IF r.raised THEN RunnerRaise(run, "apply")
                        ELSE [run EXCEPT !.pc = "assert"]
    /\ UNCHANGED <<created_namespaces, created_interfaces, ndb_open, loUp,
                   obsVars, execVars, asrtVars, impairment_profile>>

\* time.sleep(1); ProtocolAssertion.test_tcp_handshake("client", "server",
\*     "10.0.0.2", interface=server_iface)                    ("veth-rver")
RunnerAssert ==
    /\ run.pc = "assert"
    /\ run' = [run EXCEPT !.pc = "asserting"]
    /\ atest' = [test |-> "tcp", node_a |-> Client, node_b |-> Server,
                 iface |-> <<"v","e","t","h","-","r","v","e","r">>, frags |-> 1]
    /\ apc' = "start"
    /\ UNCHANGED <<topoVars, obsVars, execVars, ares, captured, hist,
                   impairment_profile, cond>>

\* what run_test prints for the way the assertion ended:
\*   returned: [PASS]; except AssertionError: [FAIL]; except Exception: [ERROR]
Printed(outcome) ==
    IF outcome = "pass" THEN "PASS"
    ELSE IF outcome = "assertion_error" THEN "FAIL"
    ELSE "ERROR"

\* the assertion is over: print, and leave the with block normally
RunnerReport ==
    /\ run.pc = "asserting"
    /\ apc = "done"
    /\ run' = [run EXCEPT !.pc = "finally", !.printed = Printed(ares.outcome)]
    /\ UNCHANGED <<topoVars, obsVars, execVars, asrtVars, impairment_profile, cond>>

\* finally: nm.cleanup(); then run_test returns, or the exception goes on
RunnerCleanup ==
    /\ run.pc = "finally"
    /\ \E ri \in SUBSET (1 .. MaxReg), rn \in SUBSET (1 .. MaxReg) : cleanup(ri, rn)
    /\ run' = [run EXCEPT !.pc = "done", !.cleaned = @ + 1,
                          !.raised = run.err \/ last'.raised]
    /\ UNCHANGED <<execVars, asrtVars, impairment_profile, cond>>

\* the profiles of main(), and one that drops everything
RunnerProfiles ==
    {NoProfile,
     Profile(LatencyStr("100ms"), Str("20ms"), NoNum, NoNum),
     Profile(NoLatency, NoStr, Num(5), NoNum),
     Profile(LatencyStr("10ms"), NoStr, NoNum, Num(10)),
     Profile(NoLatency, NoStr, Num(100), NoNum)}

RunnerInit ==
    /\ TopoInit
    /\ ExecIdle
    /\ AssertIdle
    /\ run = [pc |-> "create_client", err |-> FALSE, failed |-> "", printed |-> "",
              cleaned |-> 0, raised |-> FALSE]
    /\ impairment_profile \in RunnerProfiles
    /\ cond = NoCall

RunnerNext ==
    \/ RunnerCreateClient
    \/ RunnerCreateServer
    \/ RunnerLink
    \/ RunnerApply
    \/ RunnerAssert
    \/ RunnerReport
    \/ RunnerCleanup
    \/ AssertStart /\ UNCHANGED <<topoVars, obsVars, runVars>>
    \/ AssertSleep /\ UNCHANGED <<topoVars, obsVars, runVars>>
    \/ AssertStimEnd /\ UNCHANGED <<topoVars, obsVars, runVars>>
    \/ AssertJoin /\ UNCHANGED <<topoVars, obsVars, runVars>>
    \/ AssertCheck /\ UNCHANGED <<topoVars, obsVars, runVars>>
    \/ AssertGet /\ UNCHANGED <<topoVars, obsVars, runVars>>
    \/ RunStart /\ UNCHANGED <<topoVars, obsVars, runVars>>
    \/ RunJoin /\ UNCHANGED <<topoVars, obsVars, runVars>>
    \/ RunCheck /\ UNCHANGED <<topoVars, obsVars, runVars>>
    \/ RunGet /\ UNCHANGED <<topoVars, obsVars, runVars>>
    \/ \E p \in Procs : WrapperEnter(p) /\ UNCHANGED <<topoVars, obsVars, runVars>>
    \/ \E f \in BOOLEAN, n \in 0 .. 2 :
          WrapperRunSend("A", f, n) /\ UNCHANGED <<topoVars, obsVars, runVars>>
    \/ WrapperSniffStart("B") /\ UNCHANGED <<topoVars, obsVars, runVars>>
    \/ WrapperSniffEnd("B") /\ UNCHANGED <<topoVars, obsVars, runVars>>
    \/ \E p \in Procs : WrapperFlush(p) /\ UNCHANGED <<topoVars, obsVars, runVars>>
    \/ \E p \in Procs : WrapperExit(p) /\ UNCHANGED <<topoVars, obsVars, runVars>>
    \/ \E p \in Procs : WrapperDie(p) /\ UNCHANGED <<topoVars, obsVars, runVars>>

SpecRunner == RunnerInit /\ [][RunnerNext]_vars

\* a step in which no process dies
NoDeath == \A p \in Procs : proc'[p].pc = "died" => proc[p].pc = "died"

\* the runner with its processes scheduled: the coordinator and each child
\* process take the step they can take; no process has to die
SpecRunnerLive ==
    RunnerInit /\ [][RunnerNext]_vars /\ WF_vars(RunnerNext /\ NoDeath)

---------------------------------------------------------------------------
\* link_nodes on node names that end alike: a manager on a host where three
\* namespaces exist, linking any two of them.
Patient == <<"p","a","t","i","e","n","t">>

NameNodes == {Client, Server, Patient}

NamesInit ==
    /\ created_namespaces = <<>>
    /\ created_interfaces = <<>>
    /\ ndb_open = TRUE
    /\ hostNs = NameNodes
    /\ hostLinks = {}
    /\ loUp = {}
    /\ last = [op |-> "none", raised |-> FALSE, outcome |-> "", name |-> DefaultNs,
               failedAt |-> 0, made |-> {}, peer |-> DefaultNs]
    /\ cleanupLog = <<>>
    /\ snap = [ifs |-> <<>>, nss |-> <<>>]
    /\ inRow = 0
    /\ pending = {}
    /\ swept = {}
    /\ firstFound = 0
    /\ ExecIdle
    /\ AssertIdle
    /\ RunnerIdle

NamesLink ==
    /\ \E a \in NameNodes, b \in NameNodes, f \in 0 .. LastLinkStep :
          link_nodes(a, b, "10.0.0.1", "10.0.0.2", f)
    /\ UNCHANGED <<execVars, asrtVars, runVars>>

NamesNext == NamesLink \/ CallCleanup

SpecNames == NamesInit /\ [][NamesNext]_vars

---------------------------------------------------------------------------
\* impairment.py alone: a NetworkConditioner(namespace="client") called with
\* any profile on either interface name, on a host that is set up, or not.
CondProfiles ==
    {NoProfile,
     Profile(NoLatency, Str("20ms"), NoNum, NoNum),
     Profile(LatencyStr("100ms"), Str("20ms"), NoNum, NoNum),
     Profile(LatencyDict(Str("100ms"), Str("20ms")), NoStr, NoNum, NoNum),
     Profile(LatencyDict(NoStr, Str("5ms")), NoStr, NoNum, Num(10)),
     Profile(NoLatency, NoStr, NoNum, Num(10)),
     Profile(NoLatency, NoStr, Num(5), NoNum),
     Profile(LatencyStr("10ms"), NoStr, NoNum, Num(10))}

CondIfaces == {VethName(Client), VethName(Server)}

CondInit ==
    /\ created_namespaces = <<>>
    /\ created_interfaces = <<>>
    /\ ndb_open = TRUE
    /\ hostNs \in {Nodes, {Server}}
    /\ hostLinks \in (IF hostNs = Nodes THEN {{}, {FullLink}} ELSE {{}})
    /\ loUp = (IF hostLinks = {} THEN {} ELSE Nodes)
    /\ last = [op |-> "none", raised |-> FALSE, outcome |-> "", name |-> DefaultNs,
               failedAt |-> 0, made |-> {}, peer |-> DefaultNs]
    /\ cleanupLog = <<>>
    /\ snap = [ifs |-> <<>>, nss |-> <<>>]
    /\ inRow = 0
    /\ pending = {}
    /\ swept = {}
    /\ firstFound = 0
    /\ ExecIdle
    /\ AssertIdle
    /\ RunnerIdle

\* nc.apply_profile(interface, profile)
CondApply ==
    /\ \E i \in CondIfaces, pr \in CondProfiles, f \in ApplyFailPoints, d \in BOOLEAN :
          LET r == ApplyProfile(hostNs, hostLinks, Client, i, pr, f, d)
          IN  /\ hostNs' = r.ns
              /\ hostLinks' = r.links
              /\ cond' = CondCall("apply", Client, i, pr, f, hostNs, hostLinks, r, cond)
    /\ UNCHANGED <<created_namespaces, created_interfaces, ndb_open, loUp,
                   obsVars, execVars, asrtVars, run, impairment_profile>>

\* nc.clear_impairments(interface)
CondClear ==
    /\ \E i \in CondIfaces, f \in ClearFailPoints :
          LET r == ClearImpairments(hostNs, hostLinks, Client, i, f)
          IN  /\ hostNs' = r.ns
              /\ hostLinks' = r.links
              /\ cond' = CondCall("clear", Client, i, NoProfile, f, hostNs, hostLinks,
                                  r, cond)
    /\ UNCHANGED <<created_namespaces, created_interfaces, ndb_open, loUp,
                   obsVars, execVars, asrtVars, run, impairment_profile>>

CondNext == CondApply \/ CondClear

SpecCond == CondInit /\ [][CondNext]_vars

---------------------------------------------------------------------------
\* Claims.
Range(q) == {q[i] : i \in DOMAIN q}

\* C1: the stimulus is never sent while the capture process has not begun to
\* listen (both assertions, every interleaving).
C1_StimulusOnlyAfterCaptureListens == hist.sent => hist.listened

\* C2: a capture process that ended without ever listening (it could not
\* start) means that no stimulus process was dispatched into node A, and the
\* assertion does not pass.
C2_NoStimulusWhenCaptureNeverReady ==
    (Gone("B") /\ ~hist.listened) =>
        /\ proc["A"].pc = "none"
        /\ rpc \in {"idle"}
        /\ ares.outcome # "pass"

\* C8: a call of run_in_ns that has not ended can always take a step, and it
\* ends with the job's value if the job succeeded, else with an error.
C8_RunInNsAlwaysEnds ==
    /\ rpc \in {"start", "join", "check", "get"} => ENABLED RunNext
    /\ rpc = "returned" =>
          /\ ~rres.job.raises
          /\ rres.ns \in hostNs
          /\ rres.val = rres.job.size
    /\ rpc = "raised" => rres.why \in {"job", "notfound", "died"}

\* C9 (as claimed): run_in_ns on a namespace that does not exist starts no
\* child process.
C9_MissingNsSpawnsNothing ==
    (rpc # "idle" /\ rres.ns \notin hostNs) => proc["A"].pc = "none"

\* C9 (amended): run_in_ns on a namespace that does not exist fails; the
\* child it starts never enters a network context and never invokes the job,
\* and the error is the child's not-found report (or that of a child that
\* died before reporting).
C9_MissingNsFailsInsideUnit ==
    (rpc # "idle" /\ rres.ns \notin hostNs) =>
        /\ ~proc["A"].entered
        /\ ~proc["A"].ran
        /\ rpc # "returned"
        /\ rpc = "raised" => rres.why \in {"notfound", "died"}

\* run_in_ns on a missing namespace has raised the child's not-found report
C9_Witness ==
    /\ rres.ns \notin hostNs
    /\ rpc = "raised"
    /\ rres.why = "notfound"
    /\ proc["A"].pc = "exited"

\* C10: an assertion that ended because its stimulus job failed ended as an
\* execution failure and left no capture process running.
C10_StimulusFailureAbortsCapture ==
    (apc = "done" /\ ares.why = "stimulus") =>
        /\ ares.outcome = "exception"
        /\ ~Alive("B")

\* C3: run_test has returned, or passed an error on to its caller, only after
\* cleanup() ran, whichever step failed.
C3_CleanupBeforeRunTestEnds ==
    (run.pc = "done" \/ run.raised) => (run.cleaned = 1 /\ last.op = "cleanup")

\* run_test has passed on the failure of apply_profile, after cleanup()
C3_Witness ==
    /\ run.pc = "done"
    /\ run.raised
    /\ run.failed = "apply"
    /\ run.cleaned = 1

\* C4: cleanup() visits every registered interface and then every registered
\* namespace, in registry order and each entry exactly once, whatever the
\* outcome of the single removals, and never raises.
C4_CleanupVisitsEveryEntryOnce ==
    last.op = "cleanup" =>
        /\ ~last.raised
        /\ Len(cleanupLog) = Len(snap.ifs) + Len(snap.nss)
        /\ \A i \in 1 .. Len(snap.ifs) :
              cleanupLog[i].kind = "if" /\ cleanupLog[i].name = snap.ifs[i]
        /\ \A j \in 1 .. Len(snap.nss) :
              /\ cleanupLog[Len(snap.ifs) + j].kind = "ns"
              /\ cleanupLog[Len(snap.ifs) + j].name = snap.nss[j]

\* a cleanup() in which a removal failed and a later entry was still removed
C4_Witness ==
    /\ last.op = "cleanup"
    /\ \E i, j \in DOMAIN cleanupLog :
          /\ i < j
          /\ cleanupLog[i].res \in {"refused", "missing"}
          /\ cleanupLog[j].res = "removed"

\* C5: every cleanup(), the second of two in a row included, returns normally
\* and leaves both registry lists empty; the second one finds nothing to do.
C5_CleanupIdempotent ==
    /\ last.op = "cleanup" =>
          /\ ~last.raised
          /\ created_namespaces = <<>>
          /\ created_interfaces = <<>>
    /\ inRow = 2 => snap = [ifs |-> <<>>, nss |-> <<>>] /\ cleanupLog = <<>>

\* the second of two cleanup() calls in a row, the first of which found entries
C5_Witness == inRow = 2 /\ firstFound >= 2 /\ last.op = "cleanup"

\* C6: after a failed link_nodes every interface it made is registered, and
\* the cleanup() that follows leaves none of them on the host.
C6_FailedLinkRegisteredAndSwept ==
    /\ (last.op = "link_nodes" /\ last.raised) =>
          \A n \in last.made : n \in Range(created_interfaces)
    /\ last.op = "cleanup" => \A n \in swept : ~IfPresent(hostLinks, n)

\* C7: create_node records the name when the namespace is new and when it
\* already exists (errno 17 is not raised); any other failure is raised and
\* records nothing; after a normal return the name is in created_namespaces.
C7_CreateNodeTracks ==
    [][last'.op = "create_node" =>
          /\ last'.outcome = "eexist" => ~last'.raised
          /\ last'.outcome = "oserror" => last'.raised
          /\ IF last'.raised
             THEN created_namespaces' = created_namespaces
             ELSE /\ created_namespaces' = Append(created_namespaces, last'.name)
                  /\ last'.name \in Range(created_namespaces')]_vars

\* a create_node on an existing namespace that met errno 17 and returned
C7_Witness ==
    /\ last.op = "create_node"
    /\ last.outcome = "eexist"
    /\ ~last.raised
    /\ last.name \in Range(created_namespaces)

\* C11: an assertion that got as far as joining the capture process passes
\* exactly when the capture result was read, is a success and holds at least
\* 1 packet (handshake) or 2 packets (fragmentation); with fewer packets it
\* ends as an assertion failure; when the capture process reported an error
\* or left no result it ends as an execution failure, which is not an
\* assertion failure.
C11_OutcomeFromCaptureResult ==
    LET m    == queue["B"].msg
        read == m.size > 0 /\ queue["B"].got = m.size
        need == IF atest.test = "tcp" THEN 1 ELSE 2
    IN  (apc = "done" /\ ares.why # "stimulus") =>
            /\ ares.outcome = "pass" <=> (read /\ m.ok /\ m.val >= need)
            /\ (read /\ m.ok /\ m.val < need) => ares.outcome = "assertion_error"
            /\ (~read \/ ~m.ok) => ares.outcome = "exception"

\* C12: once the stimulus is out and nothing was captured in node B (total
\* loss, say), the capture process ends by its timeout, the join returns,
\* and the run goes on to print FAIL: neither a hang nor a crash.
C12_NoPacketEndsAsFail ==
    (run.pc = "asserting" /\ apc = "join" /\ captured = 0) ~> (run.printed = "FAIL")

\* FAIL was printed after a sniffer that listened on a path with 100% loss
\* timed out with nothing captured
C12_Witness ==
    /\ run.printed = "FAIL"
    /\ PathLoss(hostLinks, Client, Server, VethName(Server)) = 100
    /\ hist.sent /\ hist.listened
    /\ queue["B"].msg.ok /\ queue["B"].msg.val = 0
    /\ ares = [outcome |-> "assertion_error", why |-> "too_few"]

\* C13: apply_profile on a profile with reorder set and no base delay (no
\* latency entry, or a latency entry without a delay value) translates to a
\* configuration whose delay is the floor 10ms, with the reorder percentage.
C13_ReorderGetsFloorDelay ==
    LET pr  == cond.profile
        lat == pr.latency
        noBase == \/ lat.t = "none"
                  \/ lat.t = "str" /\ lat.v = ""
                  \/ lat.t = "dict" /\ ~lat.delay.has
    IN  (cond.op = "apply" /\ pr.reorder.has /\ noBase) =>
            /\ cond.opts.delay = Str("10ms")
            /\ cond.opts.reorder = pr.reorder

\* C14: apply_profile on a profile that gives a latency delay and a jitter
\* and neither loss nor reorder translates to exactly that delay and that
\* jitter; {latency: 100ms, jitter: 20ms} gives {delay: 100ms, jitter: 20ms}.
C14_DelayAndJitterTranslated ==
    LET pr  == cond.profile
        lat == pr.latency
        hasDelay  == (lat.t = "dict" /\ lat.delay.has) \/ (lat.t = "str" /\ lat.v # "")
        hasJitter == (lat.t = "dict" /\ lat.jitter.has) \/ pr.jitter.has
        d == IF lat.t = "dict" THEN lat.delay ELSE Str(lat.v)
        j == IF lat.t = "dict" /\ lat.jitter.has THEN lat.jitter ELSE pr.jitter
    IN  (cond.op = "apply" /\ hasDelay /\ hasJitter
            /\ ~pr.loss.has /\ ~pr.reorder.has) =>
            cond.opts = [delay |-> d, jitter |-> j, loss |-> NoNum, reorder |-> NoNum]

\* the root qdisc of the endpoint of the last conditioner call, as it is now
CondNow == GetQ(hostLinks, cond.ns, cond.iface)

\* the last two conditioner calls were on one endpoint, which exists
CondSameEndpoint == cond.found /\ cond.prevIface = cond.iface

\* C15 (as claimed): a successful apply_profile that follows an apply_profile
\* on the same endpoint leaves exactly the translation of its profile active,
\* which is no configuration when that translation is empty.
C15_SecondProfileReplacesFirst ==
    (cond.op = "apply" /\ cond.prevOp = "apply" /\ CondSameEndpoint /\ ~cond.raised) =>
        CondNow = (IF cond.opts = NoOpts THEN NoConf ELSE Netem(cond.opts))

\* C15 (amended): a successful apply_profile that follows an apply_profile on
\* the same endpoint leaves exactly the translation of its profile active
\* when that translation is not empty, and leaves what was there when it is
\* empty; every endpoint holds no configuration or one whole translation,
\* never a mix of two.
C15_NonEmptyProfileReplaces ==
    /\ (cond.op = "apply" /\ cond.prevOp = "apply" /\ CondSameEndpoint /\ ~cond.raised) =>
          CondNow = (IF cond.opts = NoOpts THEN cond.before ELSE Netem(cond.opts))
    /\ \A l \in hostLinks : \A q \in {l.qA, l.qB} :
          \/ q = NoConf
          \/ \E pr \in CondProfiles : Translate(pr) # NoOpts /\ q = Netem(Translate(pr))

\* a second profile without loss was applied over a first one with loss
C15_Witness ==
    /\ cond.op = "apply" /\ cond.prevOp = "apply" /\ CondSameEndpoint
    /\ ~cond.raised
    /\ cond.before.set /\ cond.before.opts.loss.has
    /\ cond.opts # NoOpts /\ ~cond.opts.loss.has
    /\ CondNow = Netem(cond.opts)

\* C16: when apply_profile with a non-empty translation has returned or
\* raised, the endpoint holds the whole configuration it had before or the
\* whole new one; it is not left without the configuration it had.
C16_ApplyIsAtomic ==
    (cond.op = "apply" /\ cond.opts # NoOpts) =>
        CondNow \in {cond.before, Netem(cond.opts)}

\* C17: apply_profile with a non-empty translation on an interface that is
\* not in the conditioner's namespace raises, the error being the not-found
\* error unless the network control capability itself failed first, and no
\* tc del and no tc add was made: no interface has changed.
C17_MissingInterfaceRaises ==
    (cond.op = "apply" /\ cond.opts # NoOpts /\ ~cond.found) =>
        /\ cond.raised
        /\ cond.failAt = "none" => cond.why = "notfound"
        /\ cond.calls = <<>>
        /\ hostLinks = cond.linksBefore

\* apply_profile raised not-found for an interface name that exists on the
\* host, but not in the conditioner's namespace
C17_Witness ==
    /\ cond.op = "apply" /\ cond.opts # NoOpts /\ ~cond.found
    /\ cond.raised /\ cond.why = "notfound"
    /\ IfPresent(hostLinks, cond.iface)

\* C18: clear_impairments never raises; on an endpoint with a configuration
\* it leaves none; on an endpoint without one, or on a missing interface, it
\* changes nothing; a second call in a row changes nothing.
C18_ClearIdempotentNeverFails ==
    cond.op = "clear" =>
        /\ ~cond.raised
        /\ (cond.found /\ cond.before.set /\ cond.failAt = "none") => CondNow = NoConf
        /\ (~cond.found \/ ~cond.before.set) =>
              (hostNs = cond.hostBefore /\ hostLinks = cond.linksBefore)
        /\ (cond.prevOp = "clear" /\ cond.prevIface = cond.iface
               /\ cond.prevFailAt = "none" /\ cond.failAt = "none") =>
              (hostNs = cond.hostBefore /\ hostLinks = cond.linksBefore)

\* C19: apply_profile with a profile whose translation is empty returns
\* normally, without opening the namespace or looking up the interface, and
\* leaves the host, the endpoint's configuration included, as it was.
C19_EmptyTranslationIsNoOp ==
    (cond.op = "apply" /\ cond.opts = NoOpts) =>
        /\ ~cond.raised
        /\ ~cond.looked
        /\ cond.calls = <<>>
        /\ hostNs = cond.hostBefore
        /\ hostLinks = cond.linksBefore
        /\ CondNow = cond.before

\* a profile with a key, none of them recognised, met an endpoint that had a
\* configuration and left it
C19_Witness ==
    /\ cond.op = "apply" /\ cond.opts = NoOpts
    /\ ProfileTruthy(cond.profile)
    /\ cond.found /\ cond.before.set
    /\ CondNow = cond.before

\* C20: a run of run_test that has ended has printed one of PASS, FAIL and
\* ERROR: FAIL when the assertion failed, ERROR when a step of the setup,
\* the impairment or the assertion crashed.
C20_EveryRunReports ==
    run.pc = "done" =>
        /\ run.printed \in {"PASS", "FAIL", "ERROR"}
        /\ run.failed # "" => run.printed = "ERROR"
        /\ (run.failed = "" /\ ares.outcome = "assertion_error") => run.printed = "FAIL"

\* C21: the coordinating process never leaves its own network namespace; a
\* spawned process runs at most one job and puts at most one message; it is
\* inside its target namespace when it runs the job; and once its wrapper
\* has run to the end it has put exactly one message: the not-found report
\* without a job when the namespace is missing, else the error or the value
\* of the one job it ran.
C21_ContextEnteredOnlyInChild ==
    /\ proc[Main].cur = DefaultNs
    /\ \A p \in Procs :
          /\ proc[p].jobs <= 1
          /\ queue[p].puts <= 1
          /\ proc[p].jobs = 1 => (proc[p].entered /\ proc[p].cur = proc[p].ns)
          /\ ~proc[p].entered => proc[p].cur = DefaultNs
          /\ proc[p].pc \in {"flushing", "exited"} =>
                /\ queue[p].puts = 1
                /\ ~proc[p].entered =>
                      (proc[p].jobs = 0 /\ queue[p].msg.why = "notfound")
                /\ proc[p].entered =>
                      (proc[p].jobs = 1 /\ (queue[p].msg.ok \/ queue[p].msg.why = "job"))

\* the stimulus process ran its job inside node A and returned it, and the
\* capture process found node B's namespace missing and reported that
C21_Witness ==
    /\ proc["A"].pc = "exited" /\ proc["A"].cur = Client /\ proc["A"].jobs = 1
    /\ queue["A"].puts = 1 /\ queue["A"].msg.ok
    /\ proc["B"].pc = "exited" /\ ~proc["B"].entered /\ proc["B"].jobs = 0
    /\ queue["B"].puts = 1 /\ queue["B"].msg.why = "notfound"
    /\ proc[Main].cur = DefaultNs

\* C22: a link_nodes call on two distinct node names derives two distinct
\* interface names, so that the link it makes has two differently named
\* endpoints.
C22_DerivedNamesDistinct ==
    (last.op = "link_nodes" /\ last.name # last.peer) =>
        VethName(last.name) # VethName(last.peer)

\* the list new is the list old with entries added at its end
IsPrefix(old, new) == Len(new) >= Len(old) /\ SubSeq(new, 1, Len(old)) = old

\* C23: every step that is not a cleanup() keeps the entries of both registry
\* lists in place and in order: create_node adds at most one name to
\* created_namespaces and link_nodes at most one to created_interfaces, at
\* the end; steps of the conditioner, of the executor and of the assertions
\* leave both lists as they are.
C23_RegistryAppendOnly ==
    [][LET managerStep == obsVars' # obsVars
           keepNs == created_namespaces' = created_namespaces
           keepIf == created_interfaces' = created_interfaces
       IN  /\ ~(managerStep /\ last'.op = "cleanup") =>
                 /\ IsPrefix(created_namespaces, created_namespaces')
                 /\ IsPrefix(created_interfaces, created_interfaces')
           /\ (managerStep /\ last'.op = "create_node") =>
                 /\ keepIf
                 /\ Len(created_namespaces') <= Len(created_namespaces) + 1
           /\ (managerStep /\ last'.op = "link_nodes") =>
                 /\ keepNs
                 /\ Len(created_interfaces') <= Len(created_interfaces) + 1
           /\ (cond' # cond \/ execVars' # execVars \/ asrtVars' # asrtVars) =>
                 (keepNs /\ keepIf)]_vars

\* apply_profile and the handshake assertion have run and the registry still
\* holds what create_node and link_nodes recorded, in that order
C23_Witness ==
    /\ run.pc = "finally"
    /\ cond.op = "apply"
    /\ apc = "done"
    /\ created_namespaces = <<Client, Server>>
    /\ created_interfaces = <<VethName(Client)>>
===========================================================================
